---- MODULE Spec2Model ----
(***************************************************************************)
(* The WebSocket presence and messaging coordinator of server/routes       *)
(* (src/server/storage.ts, lines 977-1240): the connection handler with    *)
(* its session authentication, the Connection Registry (connectedUsers),   *)
(* the Focus Tracker (activeChatWindows), the logout route, the frame      *)
(* handlers and the close handler.  Every `await` of the source is a       *)
(* suspension point: the code up to an await is one action, the code from  *)
(* its resumption to the next await is the next action, and handlers of    *)
(* other connections interleave in between.  A storage write takes effect   *)
(* in the action that resumes its caller.  A storage or session-store      *)
(* call may reject where the source catches it (the authentication         *)
(* sequence and the frame handler); the close handler and the logout       *)
(* route have no catch, a rejection there is an unhandled rejection that   *)
(* ends the process, and is not a step of the running server.  ws.send on  *)
(* a socket that is not OPEN writes nothing.                               *)
(***************************************************************************)
EXTENDS Integers, FiniteSets, Sequences, Bags, TLC

\* ---------------------------------------------------------------- bounds
MaxConns == 3
PresenceConns == 2
MsgConns == 2
MaxReqs == 2
MsgReqs == 1
MaxLogouts == 1
MaxFailures == 1
MaxTyping == 1
MaxDropped == 1

\* ------------------------------------------------------------- constants
Users == {"u1", "u2"}
NoUser == "none"
GoneUser == "gone"
NoConn == 0
PolicyViolation == 1008
InternalError == 1011

Conns == 1 .. MaxConns
Reqs == 1 .. MaxReqs
Logouts == 1 .. MaxLogouts

VARIABLES
    conn,               \* per connection: the closure of wss.on('connection')
    connectedUsers,     \* the Connection Registry, a Map keyed by userId
    activeChatWindows,  \* the Focus Tracker, a Map userId -> Set of peers
    isOnline,           \* users.isOnline in storage
    conversations,      \* conversations table
    messages,           \* messages table
    notifications,      \* notifications table
    reqs,               \* in-flight sendMessage handlers
    logouts,            \* in-flight POST /api/logout handlers
    sent,               \* bag of events written to sockets (ws.send)
    broadcasts,         \* bag of broadcastToAll calls
    failures,           \* storage / session-store exceptions raised so far
    typings             \* typing frames handled so far

vars == <<conn, connectedUsers, activeChatWindows, isOnline, conversations,
          messages, notifications, reqs, logouts, sent, broadcasts, failures,
          typings>>

storageTables == <<conversations, messages, notifications>>

\* ------------------------------------------------------ JavaScript Map
\* A Map is the set of its entries [key, val].
MapHas(m, k) == \E e \in m : e.key = k

MapGet(m, k) == (CHOOSE e \in m : e.key = k).val

\* Mutant of MapSet: the new entry is added without replacing the old one.
MapSetKeepsOld(m, k, v) == m \cup {[key |-> k, val |-> v]}

MapSet(m, k, v) == {e \in m : e.key # k} \cup {[key |-> k, val |-> v]}

MapDelete(m, k) == {e \in m : e.key # k}

\* ------------------------------------------------------------- helpers
Event(type, to, userId, ref) ==
    [type |-> type, to |-> to, userId |-> userId, ref |-> ref]

Writable(cn, c) == cn[c].ready = "OPEN"

\* broadcastToAll: one ws.send per registry entry whose socket is OPEN.
broadcastToAll(reg, cn, type, userId) ==
    {Event(type, e.val.ws, userId, 0) : e \in {x \in reg : Writable(cn, x.val.ws)}}

\* The events a call of ws.send produces: none when the socket is not OPEN.
WsSend(cn, c, ev) == IF c # NoConn /\ Writable(cn, c) THEN {ev} ELSE {}

Emit(evs) == sent (+) SetToBag(evs)

Broadcast(type, userId) ==
    broadcasts (+) SetToBag({[type |-> type, userId |-> userId]})

\* activeChatWindows.has(a) && activeChatWindows.get(a).has(b)
HasChatOpen(acw, a, b) == MapHas(acw, a) /\ b \in MapGet(acw, a)

CanFail == failures < MaxFailures

Handshakes ==
    {[kind |-> k, user |-> NoUser] : k \in {"nocookie", "nosession", "noprincipal"}}
    \cup {[kind |-> "nouser", user |-> GoneUser]}
    \cup {[kind |-> "ok", user |-> u] : u \in Users}

NewConn ==
    [pc |-> "new", kind |-> "none", user |-> NoUser, userId |-> NoUser,
     ready |-> "NONE", closeCode |-> 0, closePc |-> "none", effects |-> {},
     sawReg |-> {}, threw |-> FALSE, removed |-> FALSE, dropped |-> {}]

NoReq ==
    [pc |-> "none", conn |-> NoConn, sender |-> NoUser, receiver |-> NoUser,
     conv |-> 0, msg |-> 0, recvConn |-> NoConn, reachable |-> "none",
     focus |-> [seen |-> FALSE, s |-> FALSE, r |-> FALSE], notif |-> 0, notifFailed |-> FALSE,
     confirms |-> 0]

Registered(cn) == {d \in Conns : "registry" \in cn[d].effects}

\* ------------------------------------------------------------------ Init
Init ==
    /\ conn = [c \in Conns |-> NewConn]
    /\ connectedUsers = {}
    /\ activeChatWindows = {}
    /\ isOnline = [u \in Users |-> FALSE]
    /\ conversations = {}
    /\ messages = {}
    /\ notifications = {}
    /\ reqs = [r \in Reqs |-> NoReq]
    /\ logouts = [l \in Logouts |-> [pc |-> "none", user |-> NoUser, removed |-> FALSE]]
    /\ sent = EmptyBag
    /\ broadcasts = EmptyBag
    /\ failures = 0
    /\ typings = 0

\* ------------------------------------------------ wss.on('connection')
Reject(c, code) ==
    conn' = [conn EXCEPT ![c].pc = "rejected", ![c].closeCode = code,
                         ![c].ready = IF @ = "OPEN" THEN "CLOSING" ELSE @]

\* Handshake received: parse the cookie; without a session id the socket is
\* closed with 1008, otherwise the session store is asked (first await).
Connection(c, h) ==
    /\ conn[c].pc = "new"
    /\ \A d \in Conns : d < c => conn[d].pc # "new"
    /\ conn' = [conn EXCEPT ![c] =
                  [NewConn EXCEPT !.kind = h.kind, !.user = h.user,
                                  !.sawReg = Registered(conn),
                                  !.pc = IF h.kind = "nocookie" THEN "rejected" ELSE "sessionGet",
                                  !.ready = IF h.kind = "nocookie" THEN "CLOSING" ELSE "OPEN",
                                  !.closeCode = IF h.kind = "nocookie" THEN PolicyViolation ELSE 0]]
    /\ UNCHANGED <<connectedUsers, activeChatWindows, isOnline, storageTables,
                   reqs, logouts, sent, broadcasts, failures, typings>>

\* Mutant of SessionGet: an invalid session is closed with the generic code.
SessionGetGenericCode(c) ==
    /\ conn[c].pc = "sessionGet"
    /\ IF conn[c].kind \in {"nosession", "noprincipal"}
       THEN Reject(c, InternalError)
       ELSE conn' = [conn EXCEPT ![c].pc = "getUser", ![c].userId = conn[c].user]
    /\ UNCHANGED <<connectedUsers, activeChatWindows, isOnline, storageTables,
                   reqs, logouts, sent, broadcasts, failures, typings>>

\* sessionStore.get resolved: no session or no passport.user -> 1008;
\* otherwise userId is assigned and storage.getUser is awaited.
SessionGet(c) ==
    /\ conn[c].pc = "sessionGet"
    /\ IF conn[c].kind \in {"nosession", "noprincipal"}
       THEN Reject(c, PolicyViolation)
       ELSE conn' = [conn EXCEPT ![c].pc = "getUser", ![c].userId = conn[c].user]
    /\ UNCHANGED <<connectedUsers, activeChatWindows, isOnline, storageTables,
                   reqs, logouts, sent, broadcasts, failures, typings>>

\* storage.getUser resolved: unknown user -> 1008; otherwise the registry
\* entry is written and setUserOnlineStatus(true) is awaited.
GetUser(c) ==
    /\ conn[c].pc = "getUser"
    /\ IF conn[c].kind = "nouser"
       THEN /\ Reject(c, PolicyViolation)
            /\ UNCHANGED connectedUsers
       ELSE /\ connectedUsers' = MapSet(connectedUsers, conn[c].userId,
                                        [ws |-> c, userId |-> conn[c].userId])
            /\ conn' = [conn EXCEPT ![c].pc = "setOnline",
                                    ![c].effects = @ \cup {"registry"}]
    /\ UNCHANGED <<activeChatWindows, isOnline, storageTables,
                   reqs, logouts, sent, broadcasts, failures, typings>>

\* Mutant of SetOnline: userOnline goes to every entry but the user's own.
SetOnlineSkipsSelf(c) ==
    /\ conn[c].pc = "setOnline"
    /\ isOnline' = [isOnline EXCEPT ![conn[c].userId] = TRUE]
    /\ sent' = Emit(broadcastToAll(MapDelete(connectedUsers, conn[c].userId), conn,
                                   "userOnline", conn[c].userId))
    /\ broadcasts' = Broadcast("userOnline", conn[c].userId)
    /\ conn' = [conn EXCEPT ![c].pc = "open",
                            ![c].effects = @ \cup {"presence", "broadcast"}]
    /\ UNCHANGED <<connectedUsers, activeChatWindows, storageTables,
                   reqs, logouts, failures, typings>>

\* setUserOnlineStatus(true) resolved: userOnline is broadcast and the
\* message and close handlers are attached to the socket.
SetOnline(c) ==
    /\ conn[c].pc = "setOnline"
    /\ isOnline' = [isOnline EXCEPT ![conn[c].userId] = TRUE]
    /\ sent' = Emit(broadcastToAll(connectedUsers, conn, "userOnline", conn[c].userId))
    /\ broadcasts' = Broadcast("userOnline", conn[c].userId)
    /\ conn' = [conn EXCEPT ![c].pc = "open",
                            ![c].effects = @ \cup {"presence", "broadcast"}]
    /\ UNCHANGED <<connectedUsers, activeChatWindows, storageTables,
                   reqs, logouts, failures, typings>>

\* An await of the authentication sequence rejects (session store or storage
\* error): the catch closes the socket with 1011 and returns.
AuthFails(c) ==
    /\ conn[c].pc \in {"sessionGet", "getUser", "setOnline"}
    /\ CanFail
    /\ failures' = failures + 1
    /\ conn' = [conn EXCEPT ![c].pc = "rejected", ![c].closeCode = InternalError,
                            ![c].threw = TRUE,
                            ![c].ready = IF @ = "OPEN" THEN "CLOSING" ELSE @]
    /\ UNCHANGED <<connectedUsers, activeChatWindows, isOnline, storageTables,
                   reqs, logouts, sent, broadcasts, typings>>

\* --------------------------------------------------------- ws.on('close')
\* The transport closes.  The 'close' event reaches the handler only when the
\* handler is attached, that is after the authentication sequence returned
\* normally; the handler runs up to its await.
WsClose(c) ==
    /\ conn[c].pc \in {"sessionGet", "getUser", "setOnline", "open"}
    /\ conn[c].ready # "CLOSED"
    /\ IF conn[c].pc = "open"
       THEN /\ connectedUsers' = MapDelete(connectedUsers, conn[c].userId)
            /\ conn' = [conn EXCEPT ![c].ready = "CLOSED", ![c].closePc = "setOffline",
                                    ![c].removed = MapHas(connectedUsers, conn[c].userId)]
       ELSE /\ conn' = [conn EXCEPT ![c].ready = "CLOSED"]
            /\ UNCHANGED connectedUsers
    /\ UNCHANGED <<activeChatWindows, isOnline, storageTables,
                   reqs, logouts, sent, broadcasts, failures, typings>>

\* Mutant of WsCloseResume: the whole Focus Tracker is cleared.
WsCloseResumeClearsAll(c) ==
    /\ conn[c].closePc = "setOffline"
    /\ isOnline' = [isOnline EXCEPT ![conn[c].userId] = FALSE]
    /\ activeChatWindows' = {}
    /\ sent' = Emit(broadcastToAll(connectedUsers, conn, "userOffline", conn[c].userId))
    /\ broadcasts' = Broadcast("userOffline", conn[c].userId)
    /\ conn' = [conn EXCEPT ![c].closePc = "done"]
    /\ UNCHANGED <<connectedUsers, storageTables, reqs, logouts, failures, typings>>

\* setUserOnlineStatus(false) of the close handler resolved.
WsCloseResume(c) ==
    /\ conn[c].closePc = "setOffline"
    /\ isOnline' = [isOnline EXCEPT ![conn[c].userId] = FALSE]
    /\ activeChatWindows' = MapDelete(activeChatWindows, conn[c].userId)
    /\ sent' = Emit(broadcastToAll(connectedUsers, conn, "userOffline", conn[c].userId))
    /\ broadcasts' = Broadcast("userOffline", conn[c].userId)
    /\ conn' = [conn EXCEPT ![c].closePc = "done"]
    /\ UNCHANGED <<connectedUsers, storageTables, reqs, logouts, failures, typings>>

\* ------------------------------------------------------ POST /api/logout
Logout(l, u) ==
    /\ logouts[l].pc = "none"
    /\ \A k \in Logouts : k < l => logouts[k].pc # "none"
    /\ IF MapHas(connectedUsers, u)
       THEN /\ conn' = [conn EXCEPT ![MapGet(connectedUsers, u).ws].ready =
                                        IF @ = "OPEN" THEN "CLOSING" ELSE @]
            /\ connectedUsers' = MapDelete(connectedUsers, u)
            /\ activeChatWindows' = MapDelete(activeChatWindows, u)
            /\ logouts' = [logouts EXCEPT ![l] = [pc |-> "setOffline", user |-> u, removed |-> TRUE]]
       ELSE /\ logouts' = [logouts EXCEPT ![l] = [pc |-> "done", user |-> u, removed |-> FALSE]]
            /\ UNCHANGED <<conn, connectedUsers, activeChatWindows>>
    /\ UNCHANGED <<isOnline, storageTables, reqs, sent, broadcasts, failures, typings>>

LogoutResume(l) ==
    /\ logouts[l].pc = "setOffline"
    /\ isOnline' = [isOnline EXCEPT ![logouts[l].user] = FALSE]
    /\ sent' = Emit(broadcastToAll(connectedUsers, conn, "userOffline", logouts[l].user))
    /\ broadcasts' = Broadcast("userOffline", logouts[l].user)
    /\ logouts' = [logouts EXCEPT ![l].pc = "done"]
    /\ UNCHANGED <<conn, connectedUsers, activeChatWindows, storageTables,
                   reqs, failures, typings>>

\* -------------------------------------------------------- ws.on('message')
\* A frame reaches the handler of a connection whose handlers are attached
\* and whose transport has not closed.
\* Mutant of Receiving: the handlers are attached when the socket is accepted.
ReceivingBeforeAuth(c) == conn[c].pc # "new" /\ conn[c].ready # "CLOSED"

Receiving(c) == conn[c].pc = "open" /\ conn[c].ready # "CLOSED"

\* Lines 1103-1106: the focus map after user userId opened a chat window with
\* otherUserId (the set is created when missing).
openChatWindow(acw, userId, otherUserId) ==
    MapSet(acw, userId,
           (IF MapHas(acw, userId) THEN MapGet(acw, userId) ELSE {}) \cup {otherUserId})

\* Mutant of closeChatWindow: the user's whole set is dropped.
closeChatWindowDropsSet(acw, userId, otherUserId) ==
    MapDelete(acw, userId)

\* Lines 1114-1120: the focus map after user userId closed the chat window
\* with otherUserId (an emptied set is removed from the map).
closeChatWindow(acw, userId, otherUserId) ==
    IF MapHas(acw, userId)
    THEN LET rest == MapGet(acw, userId) \ {otherUserId}
         IN  IF rest = {} THEN MapDelete(acw, userId) ELSE MapSet(acw, userId, rest)
    ELSE acw

\* The frames discarded so far, over all connections.
RECURSIVE DroppedUpTo(_)
DroppedUpTo(n) ==
    IF n = 0 THEN 0 ELSE Cardinality(conn[n].dropped) + DroppedUpTo(n - 1)

CanDrop == DroppedUpTo(MaxConns) < MaxDropped

\* A frame arrives while the authentication sequence is still suspended: the
\* socket emits 'message' with no listener attached (the listener is added
\* at line 1093), so the frame is discarded.
EarlyFrame(c) ==
    /\ conn[c].pc \in {"sessionGet", "getUser", "setOnline"}
    /\ conn[c].ready = "OPEN"
    /\ CanDrop /\ "early" \notin conn[c].dropped
    /\ conn' = [conn EXCEPT ![c].dropped = @ \cup {"early"}]
    /\ UNCHANGED <<connectedUsers, activeChatWindows, isOnline, storageTables, reqs,
                   logouts, sent, broadcasts, failures, typings>>

\* Mutant of MalformedFrame: the parse error closes the socket.
MalformedFrameCloses(c) ==
    /\ Receiving(c)
    /\ CanDrop /\ "malformed" \notin conn[c].dropped
    /\ conn' = [conn EXCEPT ![c].dropped = @ \cup {"malformed"},
                            ![c].ready = IF @ = "OPEN" THEN "CLOSING" ELSE @,
                            ![c].closeCode = InternalError]
    /\ UNCHANGED <<connectedUsers, activeChatWindows, isOnline, storageTables, reqs,
                   logouts, sent, broadcasts, failures, typings>>

\* A frame that is not JSON: JSON.parse throws inside the try and the catch
\* logs it.
MalformedFrame(c) ==
    /\ Receiving(c)
    /\ CanDrop /\ "malformed" \notin conn[c].dropped
    /\ conn' = [conn EXCEPT ![c].dropped = @ \cup {"malformed"}]
    /\ UNCHANGED <<connectedUsers, activeChatWindows, isOnline, storageTables, reqs,
                   logouts, sent, broadcasts, failures, typings>>

\* Mutant of UnknownFrame: a default case answers the sender.
UnknownFrameAnswers(c) ==
    /\ Receiving(c)
    /\ CanDrop /\ "unknown" \notin conn[c].dropped
    /\ conn' = [conn EXCEPT ![c].dropped = @ \cup {"unknown"}]
    /\ sent' = Emit(WsSend(conn, c, Event("error", c, conn[c].userId, 0)))
    /\ UNCHANGED <<connectedUsers, activeChatWindows, isOnline, storageTables, reqs,
                   logouts, broadcasts, failures, typings>>

\* A frame whose type matches no case of the switch: the handler returns.
UnknownFrame(c) ==
    /\ Receiving(c)
    /\ CanDrop /\ "unknown" \notin conn[c].dropped
    /\ conn' = [conn EXCEPT ![c].dropped = @ \cup {"unknown"}]
    /\ UNCHANGED <<connectedUsers, activeChatWindows, isOnline, storageTables, reqs,
                   logouts, sent, broadcasts, failures, typings>>

\* case 'openChatWindow'
OpenChatWindow(c, otherUserId) ==
    /\ Receiving(c)
    /\ activeChatWindows' = openChatWindow(activeChatWindows, conn[c].userId, otherUserId)
    /\ UNCHANGED <<conn, connectedUsers, isOnline, storageTables, reqs, logouts,
                   sent, broadcasts, failures, typings>>

\* case 'closeChatWindow'
CloseChatWindow(c, otherUserId) ==
    /\ Receiving(c)
    /\ activeChatWindows' = closeChatWindow(activeChatWindows, conn[c].userId, otherUserId)
    /\ UNCHANGED <<conn, connectedUsers, isOnline, storageTables, reqs, logouts,
                   sent, broadcasts, failures, typings>>

\* Mutant of Typing: the event is echoed to the sender as well.
TypingEchoes(c, receiverId) ==
    /\ Receiving(c)
    /\ typings < MaxTyping
    /\ typings' = typings + 1
    /\ sent' = Emit((IF MapHas(connectedUsers, receiverId)
                     THEN WsSend(conn, MapGet(connectedUsers, receiverId).ws,
                                 Event("userTyping", MapGet(connectedUsers, receiverId).ws,
                                       conn[c].userId, 0))
                     ELSE {})
                    \cup WsSend(conn, c, Event("userTyping", c, conn[c].userId, 0)))
    /\ UNCHANGED <<conn, connectedUsers, activeChatWindows, isOnline, storageTables,
                   reqs, logouts, broadcasts, failures>>

\* case 'typing'
Typing(c, receiverId) ==
    /\ Receiving(c)
    /\ typings < MaxTyping
    /\ typings' = typings + 1
    /\ sent' = Emit(IF MapHas(connectedUsers, receiverId)
                    THEN WsSend(conn, MapGet(connectedUsers, receiverId).ws,
                                Event("userTyping", MapGet(connectedUsers, receiverId).ws,
                                      conn[c].userId, 0))
                    ELSE {})
    /\ UNCHANGED <<conn, connectedUsers, activeChatWindows, isOnline, storageTables,
                   reqs, logouts, broadcasts, failures>>

\* ---------------------------------------------------- case 'sendMessage'
\* storage.getConversation: the rows of the unordered pair.
ConversationsOf(a, b) ==
    {k \in conversations :
        \/ k.participant1Id = a /\ k.participant2Id = b
        \/ k.participant1Id = b /\ k.participant2Id = a}

\* ws.send of messageConfirmed on the sender's own socket.
Confirm(rq) ==
    WsSend(conn, rq.conn, Event("messageConfirmed", rq.conn, rq.sender, rq.msg))

\* Mutant of bothActivelyChatting: one open chat window is enough.
eitherActivelyChatting(acw, userId, receiverId) ==
    HasChatOpen(acw, userId, receiverId) \/ HasChatOpen(acw, receiverId, userId)

\* Lines 1157-1163: the suppression decision.  TRUE when the notification is
\* skipped.
bothActivelyChatting(acw, userId, receiverId) ==
    HasChatOpen(acw, userId, receiverId) /\ HasChatOpen(acw, receiverId, userId)

\* The handler from the suppression decision to its next await (or its end),
\* given the events evs already written in this step.
Decide(r, rq, evs) ==
    LET seen == [seen |-> TRUE,
                 s |-> HasChatOpen(activeChatWindows, rq.sender, rq.receiver),
                 r |-> HasChatOpen(activeChatWindows, rq.receiver, rq.sender)]
    IN  IF bothActivelyChatting(activeChatWindows, rq.sender, rq.receiver)
        THEN /\ reqs' = [reqs EXCEPT ![r] = [rq EXCEPT !.focus = seen, !.pc = "done",
                                                       !.confirms = rq.confirms + 1]]
             /\ sent' = Emit(evs \cup Confirm(rq))
        ELSE /\ reqs' = [reqs EXCEPT ![r] = [rq EXCEPT !.focus = seen,
                                                       !.pc = "createNotification"]]
             /\ sent' = Emit(evs)

\* The frame is received: storage.getConversation is awaited.
SendMessage(r, c, receiverId) ==
    /\ Receiving(c)
    /\ reqs[r].pc = "none"
    /\ \A q \in Reqs : q < r => reqs[q].pc # "none"
    /\ reqs' = [reqs EXCEPT ![r] = [NoReq EXCEPT !.pc = "getConversation", !.conn = c,
                                                 !.sender = conn[c].userId,
                                                 !.receiver = receiverId]]
    /\ UNCHANGED <<conn, connectedUsers, activeChatWindows, isOnline, storageTables,
                   logouts, sent, broadcasts, failures, typings>>

\* getConversation resolved: createMessage or createConversation is awaited.
GetConversation(r) ==
    /\ reqs[r].pc = "getConversation"
    /\ LET found == ConversationsOf(reqs[r].sender, reqs[r].receiver)
       IN  IF found = {}
           THEN reqs' = [reqs EXCEPT ![r].pc = "createConversation"]
           ELSE \E k \in found :
                    reqs' = [reqs EXCEPT ![r].pc = "createMessage", ![r].conv = k.id]
    /\ UNCHANGED <<conn, connectedUsers, activeChatWindows, isOnline, storageTables,
                   logouts, sent, broadcasts, failures, typings>>

\* createConversation resolved.
CreateConversation(r) ==
    /\ reqs[r].pc = "createConversation"
    /\ LET id == Cardinality(conversations) + 1
       IN  /\ conversations' = conversations \cup
                  {[id |-> id, participant1Id |-> reqs[r].sender,
                    participant2Id |-> reqs[r].receiver]}
           /\ reqs' = [reqs EXCEPT ![r].pc = "createMessage", ![r].conv = id]
    /\ UNCHANGED <<conn, connectedUsers, activeChatWindows, isOnline, messages,
                   notifications, logouts, sent, broadcasts, failures, typings>>

\* Mutant of CreateMessage: the handler goes on before the row is stored.
CreateMessageUnsaved(r) ==
    /\ reqs[r].pc = "createMessage"
    /\ LET id == Cardinality(messages) + 1
           receiverConnection ==
               IF MapHas(connectedUsers, reqs[r].receiver)
               THEN MapGet(connectedUsers, reqs[r].receiver).ws ELSE NoConn
           open == receiverConnection # NoConn /\ Writable(conn, receiverConnection)
           rq == [reqs[r] EXCEPT !.msg = id, !.recvConn = receiverConnection,
                                 !.reachable = IF open THEN "yes" ELSE "no"]
       IN  /\ UNCHANGED messages
           /\ IF open
              THEN /\ reqs' = [reqs EXCEPT ![r] = [rq EXCEPT !.pc = "getSender"]]
                   /\ UNCHANGED sent
              ELSE Decide(r, rq, {})
    /\ UNCHANGED <<conn, connectedUsers, activeChatWindows, isOnline, conversations,
                   notifications, logouts, broadcasts, failures, typings>>

\* Mutant of CreateMessage: an unreachable recipient ends the request in the
\* error path.
CreateMessageOfflineThrows(r) ==
    /\ reqs[r].pc = "createMessage"
    /\ LET id == Cardinality(messages) + 1
           receiverConnection ==
               IF MapHas(connectedUsers, reqs[r].receiver)
               THEN MapGet(connectedUsers, reqs[r].receiver).ws ELSE NoConn
           open == receiverConnection # NoConn /\ Writable(conn, receiverConnection)
           rq == [reqs[r] EXCEPT !.msg = id, !.recvConn = receiverConnection,
                                 !.reachable = IF open THEN "yes" ELSE "no"]
       IN  /\ messages' = messages \cup
                  {[id |-> id, conversationId |-> reqs[r].conv, senderId |-> reqs[r].sender]}
           /\ reqs' = [reqs EXCEPT ![r] = [rq EXCEPT !.pc = IF open THEN "getSender"
                                                                    ELSE "failed"]]
           /\ UNCHANGED sent
    /\ UNCHANGED <<conn, connectedUsers, activeChatWindows, isOnline, conversations,
                   notifications, logouts, broadcasts, failures, typings>>

\* createMessage resolved: the message is in storage.  The receiver's registry
\* entry is read; if its socket is OPEN the sender's record is awaited for the
\* newMessage event, otherwise the handler goes on to the suppression decision.
CreateMessage(r) ==
    /\ reqs[r].pc = "createMessage"
    /\ LET id == Cardinality(messages) + 1
           receiverConnection ==
               IF MapHas(connectedUsers, reqs[r].receiver)
               THEN MapGet(connectedUsers, reqs[r].receiver).ws ELSE NoConn
           open == receiverConnection # NoConn /\ Writable(conn, receiverConnection)
           rq == [reqs[r] EXCEPT !.msg = id, !.recvConn = receiverConnection,
                                 !.reachable = IF open THEN "yes" ELSE "no"]
       IN  /\ messages' = messages \cup
                  {[id |-> id, conversationId |-> reqs[r].conv, senderId |-> reqs[r].sender]}
           /\ IF open
              THEN /\ reqs' = [reqs EXCEPT ![r] = [rq EXCEPT !.pc = "getSender"]]
                   /\ UNCHANGED sent
              ELSE Decide(r, rq, {})
    /\ UNCHANGED <<conn, connectedUsers, activeChatWindows, isOnline, conversations,
                   notifications, logouts, broadcasts, failures, typings>>

\* Mutant of DeliverMessage: newMessage goes to every registered socket.
DeliverMessageToAll(r) ==
    /\ reqs[r].pc = "getSender"
    /\ Decide(r, reqs[r],
              {Event("newMessage", e.val.ws, reqs[r].sender, reqs[r].msg) :
                  e \in {x \in connectedUsers : Writable(conn, x.val.ws)}})
    /\ UNCHANGED <<conn, connectedUsers, activeChatWindows, isOnline, storageTables,
                   logouts, broadcasts, failures, typings>>

\* getUser(sender) resolved: newMessage is written to the receiver's socket,
\* then the suppression decision is taken.
DeliverMessage(r) ==
    /\ reqs[r].pc = "getSender"
    /\ Decide(r, reqs[r],
              WsSend(conn, reqs[r].recvConn,
                     Event("newMessage", reqs[r].recvConn, reqs[r].sender, reqs[r].msg)))
    /\ UNCHANGED <<conn, connectedUsers, activeChatWindows, isOnline, storageTables,
                   logouts, broadcasts, failures, typings>>

\* createNotification resolved: the notification is in storage and the
\* sender's record is awaited for the newNotification event.
CreateNotification(r) ==
    /\ reqs[r].pc = "createNotification"
    /\ LET id == Cardinality(notifications) + 1
       IN  /\ notifications' = notifications \cup
                  {[id |-> id, userId |-> reqs[r].receiver, type |-> "message_received",
                    fromUserId |-> reqs[r].sender, conversationId |-> reqs[r].conv]}
           /\ reqs' = [reqs EXCEPT ![r].pc = "getSenderForNotification", ![r].notif = id]
    /\ UNCHANGED <<conn, connectedUsers, activeChatWindows, isOnline, conversations,
                   messages, logouts, sent, broadcasts, failures, typings>>

\* getUser(sender) resolved inside the notification block: newNotification is
\* written to the socket read at line 1147 if it is OPEN now, then the sender
\* is confirmed.
DeliverNotification(r) ==
    /\ reqs[r].pc = "getSenderForNotification"
    /\ sent' = Emit(WsSend(conn, reqs[r].recvConn,
                           Event("newNotification", reqs[r].recvConn, reqs[r].sender,
                                 reqs[r].notif))
                    \cup Confirm(reqs[r]))
    /\ reqs' = [reqs EXCEPT ![r].pc = "done", ![r].confirms = reqs[r].confirms + 1]
    /\ UNCHANGED <<conn, connectedUsers, activeChatWindows, isOnline, storageTables,
                   logouts, broadcasts, failures, typings>>

\* A storage call of the handler rejects outside the notification block: the
\* outer catch logs it and the handler ends.
RequestFails(r) ==
    /\ reqs[r].pc \in {"getConversation", "createConversation", "createMessage", "getSender"}
    /\ CanFail
    /\ failures' = failures + 1
    /\ reqs' = [reqs EXCEPT ![r].pc = "failed"]
    /\ UNCHANGED <<conn, connectedUsers, activeChatWindows, isOnline, storageTables,
                   logouts, sent, broadcasts, typings>>

\* Mutant of NotificationFails: the rejection reaches the outer catch and the
\* handler ends without confirming.
NotificationFailsAborts(r) ==
    /\ reqs[r].pc \in {"createNotification", "getSenderForNotification"}
    /\ CanFail
    /\ failures' = failures + 1
    /\ reqs' = [reqs EXCEPT ![r].pc = "failed", ![r].notifFailed = TRUE]
    /\ UNCHANGED <<conn, connectedUsers, activeChatWindows, isOnline, storageTables,
                   logouts, sent, broadcasts, typings>>

\* A storage call of the notification block rejects: the inner catch logs it
\* and the handler goes on to confirm the sender.
NotificationFails(r) ==
    /\ reqs[r].pc \in {"createNotification", "getSenderForNotification"}
    /\ CanFail
    /\ failures' = failures + 1
    /\ sent' = Emit(Confirm(reqs[r]))
    /\ reqs' = [reqs EXCEPT ![r].pc = "done", ![r].notifFailed = TRUE,
                             ![r].confirms = reqs[r].confirms + 1]
    /\ UNCHANGED <<conn, connectedUsers, activeChatWindows, isOnline, storageTables,
                   logouts, broadcasts, typings>>

\* ------------------------------------------------------------------ Next
ValidHandshakes == {h \in Handshakes : h.kind = "ok"}

AuthSteps ==
    \/ \E c \in Conns : SessionGet(c)
    \/ \E c \in Conns : GetUser(c)
    \/ \E c \in Conns : SetOnline(c)

CloseSteps ==
    \/ \E c \in Conns : WsClose(c)
    \/ \E c \in Conns : WsCloseResume(c)

LogoutSteps ==
    \/ \E l \in Logouts, u \in Users : Logout(l, u)
    \/ \E l \in Logouts : LogoutResume(l)

FocusFrames ==
    \/ \E c \in Conns, o \in Users : OpenChatWindow(c, o)
    \/ \E c \in Conns, o \in Users : CloseChatWindow(c, o)

TypingFrames == \E c \in Conns, o \in Users : Typing(c, o)

DroppedFrames ==
    \/ \E c \in Conns : MalformedFrame(c)
    \/ \E c \in Conns : UnknownFrame(c)

\* The steps of a sendMessage handler after the frame was received.
HandlerSteps ==
    \/ \E r \in Reqs : GetConversation(r)
    \/ \E r \in Reqs : CreateConversation(r)
    \/ \E r \in Reqs : CreateMessage(r)
    \/ \E r \in Reqs : DeliverMessage(r)
    \/ \E r \in Reqs : CreateNotification(r)
    \/ \E r \in Reqs : DeliverNotification(r)

MessageSteps ==
    \/ \E r \in 1 .. MsgReqs, c \in Conns, o \in Users : SendMessage(r, c, o)
    \/ \E r \in Reqs : GetConversation(r)
    \/ \E r \in Reqs : CreateConversation(r)
    \/ \E r \in Reqs : CreateMessage(r)
    \/ \E r \in Reqs : DeliverMessage(r)
    \/ \E r \in Reqs : CreateNotification(r)
    \/ \E r \in Reqs : DeliverNotification(r)
    \/ \E r \in Reqs : RequestFails(r)
    \/ \E r \in Reqs : NotificationFails(r)

\* Presence: every handshake, authentication with its failures, transport
\* closes, logouts, and the focus and typing frames.
Next ==
    \/ \E c \in 1 .. PresenceConns, h \in Handshakes : Connection(c, h)
    \/ AuthSteps
    \/ \E c \in Conns : AuthFails(c)
    \/ CloseSteps
    \/ LogoutSteps
    \/ FocusFrames
    \/ TypingFrames

Spec == Init /\ [][Next]_vars

\* Messaging: users with valid sessions connect, open and close chat windows,
\* send messages and disconnect, and storage calls of the handlers may fail.
NextMsg ==
    \/ \E c \in 1 .. MsgConns, h \in ValidHandshakes : Connection(c, h)
    \/ AuthSteps
    \/ CloseSteps
    \/ FocusFrames
    \/ MessageSteps

SpecMsg == Init /\ [][NextMsg]_vars

\* Reconnection: one user opens connection after connection.
NextReconnect ==
    \/ \E c \in Conns : Connection(c, [kind |-> "ok", user |-> "u1"])
    \/ AuthSteps
    \/ CloseSteps
    \/ LogoutSteps

SpecReconnect == Init /\ [][NextReconnect]_vars

\* Cleanup: users connect and their transports close at any point.  The event
\* loop resumes every suspended handler: each awaited storage or session
\* call of a connection's authentication and of its close handler resolves.
NextCleanup ==
    \/ \E c \in 1 .. PresenceConns, h \in ValidHandshakes : Connection(c, h)
    \/ AuthSteps
    \/ CloseSteps

SpecCleanup ==
    /\ Init /\ [][NextCleanup]_vars
    /\ \A c \in Conns : WF_vars(SessionGet(c) \/ GetUser(c) \/ SetOnline(c))
    /\ \A c \in Conns : WF_vars(WsCloseResume(c))

\* Concurrent sends: two sendMessage handlers in flight at once, no failures.
NextConv ==
    \/ \E c \in 1 .. MsgConns, h \in ValidHandshakes : Connection(c, h)
    \/ AuthSteps
    \/ \E r \in Reqs, c \in Conns, o \in Users : SendMessage(r, c, o)
    \/ HandlerSteps

SpecConv == Init /\ [][NextConv]_vars

\* Frames: connections that stay up receive every kind of frame, also frames
\* that arrive early, are malformed or are of an unknown type, and storage
\* calls of the handlers may fail.
NextFrames ==
    \/ \E c \in 1 .. MsgConns, h \in ValidHandshakes : Connection(c, h)
    \/ AuthSteps
    \/ \E c \in Conns : EarlyFrame(c)
    \/ DroppedFrames
    \/ FocusFrames
    \/ MessageSteps

SpecFrames == Init /\ [][NextFrames]_vars


\* ---------------------------------------------------------------- claims
EntriesOf(m, k) == {e \in m : e.key = k}

BroadcastCount(type, u) == CopiesIn([type |-> type, userId |-> u], broadcasts)

\* No close or logout handler is suspended on its storage call.
Quiescent ==
    /\ \A c \in Conns : conn[c].closePc # "setOffline"
    /\ \A l \in Logouts : logouts[l].pc # "setOffline"

\* The number of times a registry entry of u was actually removed.
Removals(u) ==
    Cardinality({c \in Conns : conn[c].removed /\ conn[c].userId = u})
    + Cardinality({l \in Logouts : logouts[l].removed /\ logouts[l].user = u})

\* C1: in every reachable state the Connection Registry holds at most one
\* entry per user identity, and the entry stored under key U carries userId U.
C1_RegistryOnePerUser ==
    /\ \A e1, e2 \in connectedUsers : e1.key = e2.key => e1 = e2
    /\ \A e \in connectedUsers : e.val.userId = e.key

\* C1 witness: a user registered a second connection over a first one, and
\* the registry holds the second.
C1_Witness ==
    \E c, d \in Conns :
        /\ c # d
        /\ conn[c].userId = conn[d].userId
        /\ {"registry"} \subseteq conn[c].effects \cap conn[d].effects
        /\ MapHas(connectedUsers, conn[d].userId)
        /\ MapGet(connectedUsers, conn[d].userId).ws = d

\* The focus state the handler of rq read at its suppression decision.
MutualFocus(rq) == rq.focus.seen /\ rq.focus.s /\ rq.focus.r

Persisted(rq) == \E m \in messages : m.id = rq.msg /\ m.senderId = rq.sender

NotificationsOf(rq) ==
    {n \in notifications : n.id = rq.notif /\ n.userId = rq.receiver
                           /\ n.fromUserId = rq.sender /\ n.type = "message_received"}

C3_PersistBeforeDeliver ==
    /\ \A ev \in BagToSet(sent) :
        ev.type \in {"newMessage", "messageConfirmed"} =>
            \E m \in messages : m.id = ev.ref /\ m.senderId = ev.userId
    /\ \A r \in Reqs :
        reqs[r].pc \in {"getSender", "createNotification",
                        "getSenderForNotification", "done"} => Persisted(reqs[r])

\* C3 witness: a message was delivered to its recipient and confirmed to its
\* sender.
C3_Witness ==
    \E e1, e2 \in BagToSet(sent) :
        /\ e1.type = "newMessage" /\ e2.type = "messageConfirmed"
        /\ e1.ref = e2.ref

OthersKept(u) ==
    \A v \in Users \ {u} :
        /\ EntriesOf(connectedUsers', v) = EntriesOf(connectedUsers, v)
        /\ EntriesOf(activeChatWindows', v) = EntriesOf(activeChatWindows, v)

\* C5: a disconnect of U (the close handler or the logout route) removes U's
\* registry entry and U's focus set, and leaves every other user's registry
\* entry and focus set as they were (U stays in V's focus set).
C5_DisconnectFrame ==
    [][/\ \A c \in Conns :
            /\ (WsClose(c) /\ conn[c].pc = "open") =>
                    /\ ~MapHas(connectedUsers', conn[c].userId)
                    /\ OthersKept(conn[c].userId)
            /\ WsCloseResume(c) =>
                    /\ ~MapHas(activeChatWindows', conn[c].userId)
                    /\ OthersKept(conn[c].userId)
       /\ \A l \in Logouts :
            /\ \A u \in Users : Logout(l, u) =>
                    /\ ~MapHas(connectedUsers', u)
                    /\ MapHas(connectedUsers, u) => ~MapHas(activeChatWindows', u)
                    /\ OthersKept(u)
            /\ LogoutResume(l) => OthersKept(logouts[l].user)]_vars

\* C5 witness: the close handler of U has run to its end while another user
\* V is registered and has U in its focus set.
C5_Witness ==
    \E c \in Conns, v \in Users :
        /\ conn[c].closePc = "done"
        /\ v # conn[c].userId
        /\ MapHas(connectedUsers, v)
        /\ HasChatOpen(activeChatWindows, v, conn[c].userId)
        /\ ~MapHas(activeChatWindows, conn[c].userId)

\* C6 (as claimed): once the disconnect handlers have run to their end, the
\* number of userOffline{U} broadcasts equals the number of times a registry
\* entry of U was removed.
C6_OneOfflinePerRemoval ==
    Quiescent => \A u \in Users : BroadcastCount("userOffline", u) = Removals(u)

\* C7 (as claimed): a user who registered a single connection is announced
\* offline at most once, whether the connection ends by logout, by transport
\* close or by both.
C7_OfflineOnce ==
    \A u \in Users :
        Cardinality({c \in Conns : conn[c].userId = u /\ "registry" \in conn[c].effects}) = 1
            => BroadcastCount("userOffline", u) <= 1

\* C8 (as claimed): when h1 was registered for A before h2 was established,
\* h2 is A's newest connection, both have authenticated and neither has
\* disconnected, the registry holds exactly one entry for A, with handle h2.
C8_NewestWins ==
    \A h1, h2 \in Conns :
        ( /\ h1 \in conn[h2].sawReg
          /\ conn[h1].userId = conn[h2].userId
          /\ conn[h1].pc = "open" /\ conn[h2].pc = "open"
          /\ conn[h1].ready = "OPEN" /\ conn[h2].ready = "OPEN"
          /\ \A h3 \in Conns : h3 > h2 => conn[h3].pc = "new" )
        => EntriesOf(connectedUsers, conn[h2].userId)
               = {[key |-> conn[h2].userId,
                   val |-> [ws |-> h2, userId |-> conn[h2].userId]]}

\* C9 (as claimed): a rejected connection attempt has written nothing: no
\* registry entry, no presence flag, no broadcast, and the registry holds no
\* entry for its socket.
C9_RejectLeavesNothing ==
    \A c \in Conns :
        conn[c].pc = "rejected" =>
            /\ conn[c].effects = {}
            /\ \A e \in connectedUsers : e.val.ws # c

\* C10: a handshake without session cookie, with an unknown session or with
\* a session without principal is closed with 1008 before any registry write,
\* presence write or broadcast; 1011 closes only an attempt in which the
\* session store or storage threw.
C10_CloseCodes ==
    \A c \in Conns :
        /\ (conn[c].pc = "rejected" /\ ~conn[c].threw
                /\ conn[c].kind \in {"nocookie", "nosession", "noprincipal"})
               => conn[c].closeCode = PolicyViolation /\ conn[c].effects = {}
        /\ conn[c].closeCode = PolicyViolation => conn[c].effects = {}
        /\ conn[c].closeCode = InternalError => conn[c].threw
        /\ conn[c].pc = "rejected" => conn[c].closeCode \in {PolicyViolation, InternalError}

\* C10 witness: one attempt was closed with 1008 for a session the store does
\* not know, another with 1011 after an exception.
C10_Witness ==
    \E c, d \in Conns :
        /\ conn[c].kind = "nosession" /\ conn[c].closeCode = PolicyViolation
        /\ conn[d].closeCode = InternalError

\* The number of events of one type written to socket c for a request.
Written(type, c, rq, ref) == CopiesIn(Event(type, c, rq.sender, ref), sent)

StillOpen(c) == c # NoConn /\ Writable(conn, c)

\* The handler read neither party as having the other in focus.
NeitherFocused(rq) == rq.focus.seen /\ ~rq.focus.s /\ ~rq.focus.r

FocusOp(kind, acw, u, x) ==
    IF kind = "open" THEN openChatWindow(acw, u, x) ELSE closeChatWindow(acw, u, x)

FocusOps == {"open", "close"}

\* C12: for a user U and distinct peers X and Y, an openChatWindow or
\* closeChatWindow on X leaves U's focus on Y as it was, both as an operation
\* on any reachable focus map and as a step of the frame handler, and an
\* operation on X and an operation on Y give the same focus map in either
\* order.
C12_FocusIndependent ==
    /\ [](\A u, x, y \in Users :
            x # y =>
                /\ \A f \in FocusOps :
                    HasChatOpen(FocusOp(f, activeChatWindows, u, x), u, y)
                        = HasChatOpen(activeChatWindows, u, y)
                /\ \A f, g \in FocusOps :
                    FocusOp(g, FocusOp(f, activeChatWindows, u, x), u, y)
                        = FocusOp(f, FocusOp(g, activeChatWindows, u, y), u, x))
    /\ [][\A c \in Conns, x \in Users :
            (OpenChatWindow(c, x) \/ CloseChatWindow(c, x)) =>
                \A y \in Users \ {x} :
                    HasChatOpen(activeChatWindows', conn[c].userId, y)
                        = HasChatOpen(activeChatWindows, conn[c].userId, y)]_vars

\* C12 witness: a user holds both peers in focus, so that a close on one is
\* an operation next to a focus entry on the other.
C12_Witness ==
    \E u \in Users :
        /\ MapHas(activeChatWindows, u)
        /\ MapGet(activeChatWindows, u) = Users


\* The handler of the request has ended (normally or in the outer catch).
Ended(rq) == rq.pc \in {"done", "failed"}

\* C13: for every sendMessage whose message was persisted and whose handler
\* has ended, ws.send of messageConfirmed was called exactly once on the
\* sender's socket.
C13_ConfirmedOnce ==
    \A r \in Reqs :
        (Ended(reqs[r]) /\ Persisted(reqs[r])) => reqs[r].confirms = 1

\* C14: a sendMessage that failed before its message was persisted has
\* written an error acknowledgment to the sender's socket.
C14_ErrorAcknowledged ==
    \A r \in Reqs :
        (reqs[r].pc = "failed" /\ reqs[r].msg = 0 /\ StillOpen(reqs[r].conn)) =>
            \E ev \in BagToSet(sent) :
                /\ ev.to = reqs[r].conn
                /\ ev.type \notin {"userOnline", "userOffline", "userTyping", "newMessage",
                                   "newNotification", "messageConfirmed"}

\* C15: when createNotification rejects, the handler still finishes: the
\* message stays in storage, no event already written is taken back,
\* messageConfirmed is sent once on the sender's socket (and written when that
\* socket is OPEN), and no newNotification of the request is written.
C15_NotificationFailureContained ==
    /\ [](\A r \in Reqs :
            (reqs[r].notifFailed /\ reqs[r].notif = 0) =>
                /\ reqs[r].pc = "done"
                /\ Persisted(reqs[r])
                /\ reqs[r].confirms = 1
                /\ StillOpen(reqs[r].conn) =>
                       Written("messageConfirmed", reqs[r].conn, reqs[r], reqs[r].msg) = 1
                /\ \A ev \in BagToSet(sent) :
                       (ev.type = "newNotification" /\ ev.userId = reqs[r].sender) =>
                           \E q \in Reqs \ {r} : reqs[q].notif = ev.ref)
    /\ [][\A r \in Reqs :
            NotificationFails(r) =>
                /\ messages' = messages
                /\ \A ev \in BagToSet(sent) : CopiesIn(ev, sent') >= CopiesIn(ev, sent)]_vars

\* C15 witness: the notification insert failed after newMessage had reached
\* the recipient, and the sender was confirmed.
C15_Witness ==
    \E r \in Reqs :
        /\ reqs[r].notifFailed /\ reqs[r].notif = 0
        /\ reqs[r].sender # reqs[r].receiver
        /\ Written("newMessage", reqs[r].recvConn, reqs[r], reqs[r].msg) = 1
        /\ Written("messageConfirmed", reqs[r].conn, reqs[r], reqs[r].msg) = 1

\* A sendMessage handler that has not yet taken its suppression decision.
Undecided(rq) == rq.pc \in {"getConversation", "createConversation", "createMessage", "getSender"}

\* C16: a later focus frame of a connection changes the Focus Tracker only
\* after the suppression decision of every earlier sendMessage of that
\* connection.
C16_ReceiptOrder ==
    [][\A c \in Conns, x \in Users :
        ( /\ OpenChatWindow(c, x) \/ CloseChatWindow(c, x)
          /\ activeChatWindows' # activeChatWindows ) =>
            \A r \in Reqs : reqs[r].conn = c => ~Undecided(reqs[r])]_vars


\* The authentication of connection c has completed successfully.
Authenticated(c) ==
    /\ conn[c].pc = "open"
    /\ conn[c].closeCode \notin {PolicyViolation, InternalError}
    /\ {"registry", "presence", "broadcast"} \subseteq conn[c].effects

ConnectedThrough(reg, cn, u, d) ==
    /\ cn[d].userId = u /\ cn[d].pc = "open" /\ Writable(cn, d)
    /\ MapHas(reg, u) /\ MapGet(reg, u).ws = d

\* C18: registering a connection leaves every focus set unchanged, and while
\* U stays connected through its registered connection, a peer leaves U's
\* focus set only by a closeChatWindow frame of U.
C18_FocusKeptAcrossReconnect ==
    [][/\ \A c \in Conns : GetUser(c) => UNCHANGED activeChatWindows
       /\ \A u \in Users :
            ( /\ \E d \in Conns : /\ ConnectedThrough(connectedUsers, conn, u, d)
                                  /\ ConnectedThrough(connectedUsers', conn', u, d)
              /\ ~ \E c \in Conns, x \in Users :
                     conn[c].userId = u /\ CloseChatWindow(c, x) )
            => \A x \in Users :
                   HasChatOpen(activeChatWindows, u, x)
                       => HasChatOpen(activeChatWindows', u, x)]_vars


\* The number of events of one type about user u written to socket d by the
\* step.
NewlyWritten(type, d, u) ==
    CopiesIn(Event(type, d, u, 0), sent') - CopiesIn(Event(type, d, u, 0), sent)

\* Socket d is the handle of a registry entry and is OPEN.
WritableEntry(reg, cn, d) == Writable(cn, d) /\ \E e \in reg : e.val.ws = d

\* C19: the step that broadcasts userOnline{U} comes after U's registry entry
\* was written, has isOnline = true stored for U, and writes the event once
\* to every socket that is a registry entry with an OPEN socket at that
\* moment and to no other socket; U's own socket is among them when it is
\* still U's entry and OPEN.
C19_OnlineBroadcast ==
    /\ [](\A c \in Conns :
            "broadcast" \in conn[c].effects =>
                {"registry", "presence"} \subseteq conn[c].effects)
    /\ [][\A c \in Conns :
            SetOnline(c) =>
                /\ "registry" \in conn[c].effects
                /\ isOnline'[conn[c].userId]
                /\ \A d \in Conns :
                    NewlyWritten("userOnline", d, conn[c].userId) =
                        IF WritableEntry(connectedUsers, conn, d) THEN 1 ELSE 0
                /\ ( /\ MapHas(connectedUsers, conn[c].userId)
                     /\ MapGet(connectedUsers, conn[c].userId).ws = c
                     /\ Writable(conn, c) )
                   => NewlyWritten("userOnline", c, conn[c].userId) = 1]_vars

\* C19 witness: the userOnline of a newly authenticated user reached its own
\* socket and the socket of another registered user.
C19_Witness ==
    \E c, d \in Conns :
        /\ conn[c].pc = "open" /\ conn[d].pc = "open"
        /\ conn[c].userId # conn[d].userId
        /\ CopiesIn(Event("userOnline", c, conn[c].userId, 0), sent) = 1
        /\ CopiesIn(Event("userOnline", d, conn[c].userId, 0), sent) = 1

\* C20: the step that broadcasts userOffline{U}, in the close handler or in
\* the logout route, leaves U without a registry entry and without a focus
\* set and with isOnline = false stored.
C20_OfflineAfterCleanup ==
    [][/\ \A c \in Conns :
            WsCloseResume(c) =>
                /\ ~MapHas(connectedUsers', conn[c].userId)
                /\ ~MapHas(activeChatWindows', conn[c].userId)
                /\ ~isOnline'[conn[c].userId]
       /\ \A l \in Logouts :
            LogoutResume(l) =>
                /\ ~MapHas(connectedUsers', logouts[l].user)
                /\ ~MapHas(activeChatWindows', logouts[l].user)
                /\ ~isOnline'[logouts[l].user]]_vars


\* C21: in every reachable state at most one conversation row exists for an
\* unordered pair of participants.
C21_OneConversationPerPair ==
    \A k1, k2 \in conversations :
        {k1.participant1Id, k1.participant2Id} = {k2.participant1Id, k2.participant2Id}
            => k1 = k2


\* The step handles a frame of connection c, or resumes or fails a
\* sendMessage handler of connection c.
FrameStepOf(c) ==
    \/ \E x \in Users : OpenChatWindow(c, x) \/ CloseChatWindow(c, x) \/ Typing(c, x)
    \/ MalformedFrame(c) \/ UnknownFrame(c)
    \/ \E r \in Reqs, o \in Users : SendMessage(r, c, o)
    \/ \E r \in Reqs :
        /\ reqs[r].conn = c
        /\ \/ GetConversation(r) \/ CreateConversation(r) \/ CreateMessage(r)
           \/ DeliverMessage(r) \/ CreateNotification(r) \/ DeliverNotification(r)
           \/ RequestFails(r) \/ NotificationFails(r)

\* The step is a failure in the handling of a frame of connection c.
FrameFailureOf(c) ==
    \/ MalformedFrame(c)
    \/ \E r \in Reqs : reqs[r].conn = c /\ (RequestFails(r) \/ NotificationFails(r))

\* C22: a step of the frame handling of a connection of U, failures
\* included, leaves the registry entry and the focus set of every other
\* user as they were; a failed frame leaves the connection as it was, and a
\* connection on which a frame failed goes on receiving frames for as long
\* as its socket is open.
C22_FrameErrorsLocal ==
    /\ [][\A c \in Conns :
            /\ FrameStepOf(c) => OthersKept(conn[c].userId)
            /\ FrameFailureOf(c) =>
                /\ conn'[c].pc = conn[c].pc /\ conn'[c].ready = conn[c].ready
                /\ conn'[c].closeCode = conn[c].closeCode
                /\ UNCHANGED <<connectedUsers, activeChatWindows>>]_vars
    /\ [](\A c \in Conns :
            ( /\ \/ "malformed" \in conn[c].dropped
                 \/ \E r \in Reqs : reqs[r].conn = c /\ (reqs[r].pc = "failed" \/ reqs[r].notifFailed)
              /\ conn[c].ready = "OPEN" )
            => Receiving(c))

\* C22 witness: a sendMessage of one user failed in storage while another
\* user was registered and held a focus set, and the sender's connection is
\* still open.
C22_Witness ==
    \E r \in Reqs, v \in Users :
        /\ reqs[r].pc = "failed" /\ v # reqs[r].sender
        /\ Receiving(reqs[r].conn) /\ Writable(conn, reqs[r].conn)
        /\ MapHas(connectedUsers, v) /\ MapHas(activeChatWindows, v)

\* C23: a frame of an unrecognized type leaves the Registry, the Focus
\* Tracker, storage and the stored presence unchanged, writes no event to any
\* socket and leaves the connection open.
C23_UnknownFrameIgnored ==
    [][\A c \in Conns :
        UnknownFrame(c) =>
            /\ UNCHANGED <<connectedUsers, activeChatWindows, storageTables, isOnline,
                           sent, broadcasts, reqs>>
            /\ conn'[c].pc = conn[c].pc /\ conn'[c].ready = conn[c].ready
            /\ conn'[c].closeCode = conn[c].closeCode
            /\ \A d \in Conns \ {c} : conn'[d] = conn[d]]_vars

\* C23 witness: an open connection of a user with a focus set handled a
\* frame of an unknown type.
C23_Witness ==
    \E c \in Conns :
        /\ "unknown" \in conn[c].dropped /\ Receiving(c) /\ Writable(conn, c)
        /\ MapHas(activeChatWindows, conn[c].userId)


\* Socket d is the registry entry of user u and is OPEN.
ReachableAt(reg, cn, u, d) == MapHas(reg, u) /\ MapGet(reg, u).ws = d /\ Writable(cn, d)

\* C24: a typing frame from S to R writes one userTyping{S} event to R's
\* registered socket if that socket is OPEN and writes nothing else: no other
\* socket gets an event, no storage row is created, and the Registry, the
\* Focus Tracker and the stored presence are unchanged.
C24_TypingRelay ==
    [][\A c \in Conns, receiverId \in Users :
        Typing(c, receiverId) =>
            /\ \A d \in Conns :
                NewlyWritten("userTyping", d, conn[c].userId) =
                    IF ReachableAt(connectedUsers, conn, receiverId, d) THEN 1 ELSE 0
            /\ \A ev \in BagToSet(sent') :
                (ev.type # "userTyping" \/ ev.userId # conn[c].userId) =>
                    CopiesIn(ev, sent') = CopiesIn(ev, sent)
            /\ \A ev \in BagToSet(sent') : conn[ev.to].userId = receiverId
                                           \/ CopiesIn(ev, sent') = CopiesIn(ev, sent)
            /\ UNCHANGED <<connectedUsers, activeChatWindows, storageTables, isOnline,
                           broadcasts, conn>>]_vars

\* C24 witness: a typing frame of one user was relayed to another user.
C24_Witness ==
    \E ev \in BagToSet(sent) :
        /\ ev.type = "userTyping" /\ conn[ev.to].userId # ev.userId
        /\ CopiesIn(ev, sent) = 1

\* Connection c of user u is superseded: u's registry entry points at another
\* connection whose socket is OPEN.
Superseded(c) ==
    /\ MapHas(connectedUsers, conn[c].userId)
    /\ MapGet(connectedUsers, conn[c].userId).ws # c
    /\ Writable(conn, MapGet(connectedUsers, conn[c].userId).ws)

\* C25: the close handler of a superseded connection of U leaves U's registry
\* entry, U's focus set and U's stored isOnline flag as they were and
\* broadcasts no userOffline{U}.
C25_SupersededCloseIsNoOp ==
    [][\A c \in Conns :
        ((WsClose(c) \/ WsCloseResume(c)) /\ conn[c].pc = "open" /\ Superseded(c)) =>
            /\ EntriesOf(connectedUsers', conn[c].userId)
                   = EntriesOf(connectedUsers, conn[c].userId)
            /\ EntriesOf(activeChatWindows', conn[c].userId)
                   = EntriesOf(activeChatWindows, conn[c].userId)
            /\ isOnline'[conn[c].userId] = isOnline[conn[c].userId]
            /\ BroadcastCount("userOffline", conn[c].userId)' =
                   BroadcastCount("userOffline", conn[c].userId)]_vars


\* C27: a finished sendMessage whose handler found no registry entry for the
\* recipient (so that the suppression decision followed at once, with no
\* newMessage written) has its message_received notification in storage,
\* unless the notification insert itself rejected.
C27_NotifiedWhenUnregistered ==
    \A r \in Reqs :
        ( /\ reqs[r].pc = "done" /\ reqs[r].reachable = "no"
          /\ reqs[r].sender # reqs[r].receiver
          /\ reqs[r].recvConn = NoConn /\ ~reqs[r].notifFailed ) =>
            Cardinality(NotificationsOf(reqs[r])) = 1

\* C28: every user who has a focus set has a registry entry.
C28_FocusImpliesRegistered ==
    \A e \in activeChatWindows : MapHas(connectedUsers, e.key)


\* No handler of a connection, a close or a logout is suspended.
AtRest ==
    /\ Quiescent
    /\ \A c \in Conns : conn[c].pc \in {"new", "open", "rejected"}

\* Some connection of user u other than c has an open socket.
OpenElsewhere(u, c) ==
    \E d \in Conns \ {c} : conn[d].userId = u /\ conn[d].ready = "OPEN"

\* C26: once the transport of a connection has closed, eventually no
\* registry entry holds its handle and, if its user has no other open
\* connection, the user's stored isOnline flag is false.
C26_CleanupLiveness ==
    \A c \in Conns :
        (conn[c].ready = "CLOSED") ~>
            /\ \A e \in connectedUsers : e.val.ws # c
            /\ conn[c].userId \in Users =>
                   (OpenElsewhere(conn[c].userId, c) \/ ~isOnline[conn[c].userId])

\* C29: when no connect, close or logout handler is suspended, a user's
\* stored isOnline flag is true exactly when the user has a registry entry.
C29_PresenceConverges ==
    AtRest => \A u \in Users : isOnline[u] <=> MapHas(connectedUsers, u)

\* C30: a connection that reached Open has discarded no frame that arrived
\* while it was authenticating.
C30_NoFrameLost ==
    \A c \in Conns : conn[c].pc = "open" => "early" \notin conn[c].dropped


====
